---- MODULE Spec2Model ----
(***************************************************************************)
(* A model of the KlicStudio MCP connector (src/klicstudio-mcp.py).        *)
(*                                                                         *)
(* The connector keeps one process-wide string, KLICSTUDIO_BASE_URL, and   *)
(* exposes a set of tools.  Two tools (get/set base URL) contain no await  *)
(* and run as one step.  Every other tool sends HTTP requests through      *)
(* _klicstudio_request and is suspended at `await client.get/post` until   *)
(* the upstream answers; other tool calls may run while it is suspended.   *)
(*                                                                         *)
(* Strings that the code inspects (startswith, rstrip, concatenation) are  *)
(* sequences of one-character strings.  JSON values whose type the code    *)
(* inspects are tagged records (JNull, JStr, JInt, JList, JObj).           *)
(***************************************************************************)
EXTENDS Integers, Sequences, FiniteSets, TLC

VARIABLES
    KLICSTUDIO_BASE_URL,  \* the module-level global of line 23
    reply,                \* the last return value of a get/set base URL call
    accepted,             \* history: where the stored base URL came from
    upstream_config,      \* the configuration held by the upstream service
    calls                 \* the tool calls that await the upstream, by slot

vars == <<KLICSTUDIO_BASE_URL, reply, accepted, upstream_config, calls>>

(***************************************************************************)
(* Bounds of the model.                                                    *)
(***************************************************************************)
MaxSlashes == 2     \* trailing slashes appended to a URL given as input
MaxCalls == 2       \* tool calls in flight together (concurrent model)
MaxItems == 1       \* entries of subtitle_info in a task response
MaxExisting == 1    \* entries the upstream already lists as embedded videos

(***************************************************************************)
(* Strings as sequences of characters.                                     *)
(***************************************************************************)
HTTP_PREFIX == <<"h","t","t","p",":","/","/">>
HTTPS_PREFIX == <<"h","t","t","p","s",":","/","/">>
HTTP_WORD == <<"h","t","t","p">>
DEFAULT_KLICSTUDIO_URL ==
    <<"h","t","t","p",":","/","/","1","2","7",".","0",".","0",".","1",":","8","8","8","8">>

\* str.startswith
StartsWith(s, p) == Len(s) >= Len(p) /\ SubSeq(s, 1, Len(p)) = p

\* str.endswith("/")
EndsWithSlash(s) == Len(s) > 0 /\ s[Len(s)] = "/"

\* a mutation of RStrip: removes one trailing slash only
RStripOnce(s) == IF EndsWithSlash(s) THEN SubSeq(s, 1, Len(s) - 1) ELSE s

\* str.rstrip('/'): removes every trailing slash
RECURSIVE RStrip(_)
RStrip(s) == IF EndsWithSlash(s) THEN RStrip(SubSeq(s, 1, Len(s) - 1)) ELSE s

\* a mutation of ValidUrl: accepts any string that mentions a scheme separator
ValidUrlLoose(new_url) == \E i \in 1..Len(new_url) : new_url[i] = ":"

\* the test of line 99
ValidUrl(new_url) == StartsWith(new_url, HTTP_PREFIX) \/ StartsWith(new_url, HTTPS_PREFIX)

RECURSIVE Slashes(_)
Slashes(k) == IF k = 0 THEN <<>> ELSE <<"/">> \o Slashes(k - 1)

(***************************************************************************)
(* JSON values.                                                            *)
(***************************************************************************)
JNull == [t |-> "null"]
JStr(s) == [t |-> "str", v |-> s]
JInt(n) == [t |-> "int", v |-> n]
JList(l) == [t |-> "list", v |-> l]
JObj(f) == [t |-> "obj", v |-> f]

\* the {error, msg, data} envelope every tool returns
Envelope(error, msg, data) == [error |-> error, msg |-> msg, data |-> data]

(***************************************************************************)
(* Exceptions: what a block of Python evaluates to.                        *)
(***************************************************************************)
NoResult == [error |-> -1, msg |-> "", data |-> JNull]
Ok(value) == [exc |-> FALSE, value |-> value]
Raise == [exc |-> TRUE, value |-> NoResult]

\* a mutation of Caught: the handler is missing and the exception escapes
NotCaught(outcome, envelope) == outcome

\* try: <outcome> except Exception: return <envelope>
Caught(outcome, envelope) == IF outcome.exc THEN Ok(envelope) ELSE outcome

(***************************************************************************)
(* Tool calls that await the upstream.                                     *)
(***************************************************************************)
Idle == [pc |-> "idle", tool |-> "none", args |-> [none |-> TRUE], sent |-> <<>>,
         recv |-> <<>>, failedAt |-> 0, result |-> NoResult, raised |-> FALSE]

API_CONFIG == <<"/","a","p","i","/","c","o","n","f","i","g">>
API_FILE == <<"/","a","p","i","/","f","i","l","e">>
API_SUBTITLE_TASK ==
    <<"/","a","p","i","/","c","a","p","a","b","i","l","i","t","y","/",
      "s","u","b","t","i","t","l","e","T","a","s","k">>
TASK_ID_QUERY == <<"?","t","a","s","k","I","d","=">>

\* a slot that can take a new tool call: nothing runs in it
Free(c) == calls[c].pc = "idle"

\* a tool call starts: its arguments are bound
Begin(tool, args) == [Idle EXCEPT !.pc = "run", !.tool = tool, !.args = args]

\* _klicstudio_request up to its await (lines 42-52): the URL is built from the
\* global as it is now, and the request is handed to the HTTP client
Request(call, method, endpoint, json) ==
    [call EXCEPT !.pc = "await",
                 !.sent = Append(@, [method |-> method,
                                     base |-> KLICSTUDIO_BASE_URL,
                                     url |-> KLICSTUDIO_BASE_URL \o endpoint,
                                     endpoint |-> endpoint,
                                     json |-> json])]

\* the tool call returns, or an exception leaves it
Finish(call, outcome) ==
    [call EXCEPT !.pc = "done", !.raised = outcome.exc, !.result = outcome.value]

\* the request a suspended call waits for, and the last answer it got
Pending(c) == calls[c].sent[Len(calls[c].sent)]
Answer(call) == call.recv[Len(call.recv)]

\* _klicstudio_request after its await (lines 56-66) followed by
\* response.json(): the body of a 2xx response, every failure is raised again
ResponseJson(call) == IF Answer(call).kind = "ok" THEN Ok(Answer(call).json) ELSE Raise

(***************************************************************************)
(* get_klicstudio_base_url and set_klicstudio_base_url.                    *)
(***************************************************************************)
get_klicstudio_base_url ==
    /\ reply' = [tool |-> "get_klicstudio_base_url",
                 new_url |-> <<>>,
                 ret |-> Envelope(0, "ok", [klicstudio_base_url |-> KLICSTUDIO_BASE_URL])]
    /\ UNCHANGED <<KLICSTUDIO_BASE_URL, accepted, upstream_config, calls>>

set_klicstudio_base_url(new_url) ==
    LET previous_url == KLICSTUDIO_BASE_URL IN
    IF ~ValidUrl(new_url)
    THEN /\ reply' = [tool |-> "set_klicstudio_base_url",
                      new_url |-> new_url,
                      ret |-> Envelope(1, "bad_url", [previous_url |-> previous_url])]
         /\ UNCHANGED <<KLICSTUDIO_BASE_URL, accepted, upstream_config, calls>>
    ELSE /\ KLICSTUDIO_BASE_URL' = RStrip(new_url)
         /\ reply' = [tool |-> "set_klicstudio_base_url",
                      new_url |-> new_url,
                      ret |-> Envelope(0, "updated",
                                       [new_klicstudio_base_url |-> RStrip(new_url),
                                        previous_klicstudio_base_url |-> previous_url])]
         /\ accepted' = [by_set |-> TRUE, value |-> new_url]
         /\ UNCHANGED <<upstream_config, calls>>

(***************************************************************************)
(* The upstream answers the request a call waits for.                      *)
(***************************************************************************)
\* an upstream is reached only through an absolute http(s) URL; every base
\* URL that reaches one reaches the same service
Reachable(req) == ValidUrl(req.base)

IsConfigPost(req) == req.method = "POST" /\ req.endpoint = API_CONFIG

\* `await client.get/post` and raise_for_status (lines 49-57) complete with a
\* 2xx response whose body is json; a POST of the configuration that the
\* upstream accepts (error = 0) replaces the upstream's configuration
RespondOk(c, json) ==
    /\ calls[c].pc = "await"
    /\ Reachable(Pending(c))
    /\ calls' = [calls EXCEPT ![c].pc = "ready",
                              ![c].recv = Append(@, [kind |-> "ok", json |-> json])]
    /\ upstream_config' = IF IsConfigPost(Pending(c)) /\ json.error = 0
                          THEN Pending(c).json
                          ELSE upstream_config
    /\ UNCHANGED <<KLICSTUDIO_BASE_URL, reply, accepted>>

\* `await client.get/post` or raise_for_status raises (lines 58-66): kind is
\* "status" (HTTPStatusError), "request" (RequestError: no connection,
\* timeout) or "unexpected" (any other exception).  A request that timed out
\* may have been applied by the upstream all the same.
RespondFail(c, kind, applied) ==
    /\ calls[c].pc = "await"
    /\ kind \in {"status", "request", "unexpected"}
    /\ kind = "status" => Reachable(Pending(c))
    /\ applied => kind = "request" /\ Reachable(Pending(c)) /\ IsConfigPost(Pending(c))
    /\ calls' = [calls EXCEPT ![c].pc = "ready",
                              ![c].recv = Append(@, [kind |-> kind, json |-> NoResult]),
                              ![c].failedAt = Len(calls[c].sent)]
    /\ upstream_config' = IF applied THEN Pending(c).json ELSE upstream_config
    /\ UNCHANGED <<KLICSTUDIO_BASE_URL, reply, accepted>>

(***************************************************************************)
(* get_klicstudio_system_config.                                           *)
(***************************************************************************)
\* lines 121-123: the request is sent
get_klicstudio_system_config(c) ==
    /\ Free(c)
    /\ calls' = [calls EXCEPT
                   ![c] = Request(Begin("get_klicstudio_system_config", [none |-> TRUE]),
                                  "GET", API_CONFIG, JNull)]
    /\ UNCHANGED <<KLICSTUDIO_BASE_URL, reply, accepted, upstream_config>>

\* lines 124-129: what get_klicstudio_system_config returns for an answer
SystemConfigResult(call) ==
    Caught(ResponseJson(call), Envelope(1, "get_config_failed", JNull))

get_klicstudio_system_config_done(c) ==
    /\ calls[c].pc = "ready"
    /\ calls[c].tool = "get_klicstudio_system_config"
    /\ calls' = [calls EXCEPT ![c] = Finish(calls[c], SystemConfigResult(calls[c]))]
    /\ UNCHANGED <<KLICSTUDIO_BASE_URL, reply, accepted, upstream_config>>

(***************************************************************************)
(* update_klicstudio_system_config.                                        *)
(***************************************************************************)
\* lines 175-179: the request is sent
update_klicstudio_system_config(c, config_data) ==
    /\ Free(c)
    /\ calls' = [calls EXCEPT
                   ![c] = Request(Begin("update_klicstudio_system_config",
                                        [config_data |-> config_data]),
                                  "POST", API_CONFIG, config_data)]
    /\ UNCHANGED <<KLICSTUDIO_BASE_URL, reply, accepted, upstream_config>>

\* lines 180-190: what update_klicstudio_system_config returns for an answer
UpdateConfigResult(call) ==
    Caught(ResponseJson(call), Envelope(1, "update_config_failed", JNull))

update_klicstudio_system_config_done(c) ==
    /\ calls[c].pc = "ready"
    /\ calls[c].tool = "update_klicstudio_system_config"
    /\ calls' = [calls EXCEPT ![c] = Finish(calls[c], UpdateConfigResult(calls[c]))]
    /\ UNCHANGED <<KLICSTUDIO_BASE_URL, reply, accepted, upstream_config>>

(***************************************************************************)
(* update_klicstudio_llm_config.                                           *)
(***************************************************************************)
\* line 211: the call of get_klicstudio_system_config sends the GET
update_klicstudio_llm_config(c, base_url, api_key, model) ==
    /\ Free(c)
    /\ calls' = [calls EXCEPT
                   ![c] = Request(Begin("update_klicstudio_llm_config",
                                        [base_url |-> base_url, api_key |-> api_key,
                                         model |-> model]),
                                  "GET", API_CONFIG, JNull)]
    /\ UNCHANGED <<KLICSTUDIO_BASE_URL, reply, accepted, upstream_config>>

\* a mutation of SetLlm: the model field is not written
SetLlmNoModel(config_data, args) ==
    [config_data EXCEPT !.llm.baseUrl = args.base_url, !.llm.apiKey = args.api_key]

\* lines 217-219: the three assignments into config_data["llm"]
SetLlm(config_data, args) ==
    [config_data EXCEPT !.llm.baseUrl = args.base_url,
                        !.llm.apiKey = args.api_key,
                        !.llm.model = args.model]

\* lines 216-219 raise when data is no object that holds an llm object
HasLlm(data) == data.t = "obj" /\ "llm" \in DOMAIN data.v

\* lines 212-226 after the fetch: the fetch's envelope is returned when its
\* error is not 0, the handler of lines 224-226 answers when the config
\* cannot be edited, else the whole edited config is sent
update_klicstudio_llm_config_fetched(c) ==
    LET call == calls[c]
        fetch == SystemConfigResult(call)
        current_config_response == fetch.value
        failed == Envelope(1, "update_llm_failed", JNull)
    IN
    /\ call.pc = "ready"
    /\ call.tool = "update_klicstudio_llm_config"
    /\ Len(call.sent) = 1
    /\ calls' = [calls EXCEPT ![c] =
         IF fetch.exc
         THEN Finish(call, Caught(fetch, failed))
         ELSE IF current_config_response.error # 0
         THEN Finish(call, Ok(current_config_response))
         ELSE IF ~HasLlm(current_config_response.data)
         THEN Finish(call, Caught(Raise, failed))
         ELSE Request(call, "POST", API_CONFIG,
                      SetLlm(current_config_response.data.v, call.args))]
    /\ UNCHANGED <<KLICSTUDIO_BASE_URL, reply, accepted, upstream_config>>

\* line 222: the value of update_klicstudio_system_config is returned
update_klicstudio_llm_config_done(c) ==
    LET call == calls[c] IN
    /\ call.pc = "ready"
    /\ call.tool = "update_klicstudio_llm_config"
    /\ Len(call.sent) = 2
    /\ calls' = [calls EXCEPT ![c] =
         Finish(call, Caught(UpdateConfigResult(call),
                             Envelope(1, "update_llm_failed", JNull)))]
    /\ UNCHANGED <<KLICSTUDIO_BASE_URL, reply, accepted, upstream_config>>

(***************************************************************************)
(* upload_file_to_klicstudio.                                              *)
(***************************************************************************)
\* an object with no key, and d with key k set to v
EmptyObj == [k \in {} |-> JNull]
Put(d, k, v) == (k :> v) @@ d

\* lines 250-257: the MIME type guessed from the name, else by the suffix
MimeType(file) ==
    IF file.guessed # "none" THEN file.guessed
    ELSE IF file.suffix \in {".mp4", ".mov", ".avi", ".mkv"} THEN "video/mp4"
    ELSE IF file.suffix \in {".mp3", ".wav", ".aac", ".m4a"} THEN "audio/mpeg"
    ELSE "application/octet-stream"

\* lines 241-262: a missing file is answered at once, a file that cannot be
\* read raises into the handler of lines 270-272, else the file is sent
upload_file_to_klicstudio(c, file) ==
    LET call == Begin("upload_file_to_klicstudio", [file |-> file]) IN
    /\ Free(c)
    /\ calls' = [calls EXCEPT ![c] =
         IF ~file.exists
         THEN Finish(call, Ok(Envelope(1, "file_not_found", JNull)))
         ELSE IF ~file.readable
         THEN Finish(call, Caught(Raise, Envelope(1, "upload_failed", JNull)))
         ELSE Request(call, "POST", API_FILE,
                      [file_name |-> file.name, mime_type |-> MimeType(file)])]
    /\ UNCHANGED <<KLICSTUDIO_BASE_URL, reply, accepted, upstream_config>>

\* Python's truth value of response.get("data")
TruthyData(data) == data.t = "obj" /\ DOMAIN data.v # {}

\* lines 265-266: when file_path is a str it is replaced by file_path[0], its
\* first character; indexing an empty str raises
NormalizeFilePath(response) ==
    IF /\ TruthyData(response.data)
       /\ "file_path" \in DOMAIN response.data.v
       /\ response.data.v["file_path"].t = "str"
    THEN LET file_path == response.data.v["file_path"].v IN
         IF Len(file_path) = 0
         THEN Raise
         ELSE Ok([response EXCEPT !.data.v["file_path"] = JStr(<<file_path[1]>>)])
    ELSE Ok(response)

\* lines 263-272: what upload_file_to_klicstudio returns for an answer
UploadResult(call) ==
    LET response == ResponseJson(call) IN
    Caught(IF response.exc THEN Raise ELSE NormalizeFilePath(response.value),
           Envelope(1, "upload_failed", JNull))

upload_file_to_klicstudio_done(c) ==
    /\ calls[c].pc = "ready"
    /\ calls[c].tool = "upload_file_to_klicstudio"
    /\ calls' = [calls EXCEPT ![c] = Finish(calls[c], UploadResult(calls[c]))]
    /\ UNCHANGED <<KLICSTUDIO_BASE_URL, reply, accepted, upstream_config>>

(***************************************************************************)
(* start_klicstudio_subtitle_task.                                         *)
(***************************************************************************)
\* Python's truth value of an Optional[str]: neither None nor ""
Truthy(x) == x.t = "str" /\ x.v # ""

NoFields == [k \in {} |-> ""]

\* a mutation of TranslationFields: origin_lang always falls back on language
TranslationFieldsAlways(args) ==
    (IF Truthy(args.origin_lang)
     THEN "origin_lang" :> args.origin_lang.v
     ELSE "origin_lang" :> args.language)
    @@ (IF Truthy(args.target_lang) THEN "target_lang" :> args.target_lang.v ELSE NoFields)

\* lines 330-337: the translation keys of the payload
TranslationFields(args) ==
    (IF Truthy(args.origin_lang)
     THEN "origin_lang" :> args.origin_lang.v
     ELSE IF Truthy(args.target_lang)
          THEN "origin_lang" :> args.language
          ELSE NoFields)
    @@ (IF Truthy(args.target_lang) THEN "target_lang" :> args.target_lang.v ELSE NoFields)

\* lines 339-343: the TTS keys of the payload, only when tts is sent as 1
TtsFields(args) ==
    IF args.tts
    THEN (IF args.tts_voice_code # JNull
          THEN "tts_voice_code" :> args.tts_voice_code.v
          ELSE NoFields)
         @@ (IF Truthy(args.tts_voice_clone_src_file_url)
             THEN "tts_voice_clone_src_file_url" :> args.tts_voice_clone_src_file_url.v
             ELSE NoFields)
    ELSE NoFields

\* lines 345-350: the titles and the replacement list
TitleFields(args) ==
    (IF args.vertical_major_title # JNull
     THEN "vertical_major_title" :> args.vertical_major_title.v
     ELSE NoFields)
    @@ (IF args.vertical_minor_title # JNull
        THEN "vertical_minor_title" :> args.vertical_minor_title.v
        ELSE NoFields)
    @@ (IF args.replace_words.t = "list" /\ args.replace_words.v # <<>>
        THEN "replace" :> args.replace_words.v
        ELSE NoFields)

\* lines 321-350: the payload of the task
Payload(args) ==
    [url |-> args.media_url_on_klicstudio,
     language |-> args.language,
     bilingual |-> IF args.bilingual THEN 1 ELSE 2,
     translation_subtitle_pos |-> args.translation_subtitle_pos,
     tts |-> IF args.tts THEN 1 ELSE 2,
     modal_filter |-> IF args.modal_filter THEN 1 ELSE 2,
     embed_subtitle_video_type |-> args.embed_subtitle_video_type]
    @@ TranslationFields(args) @@ TtsFields(args) @@ TitleFields(args)

\* lines 320-353: the request is sent
start_klicstudio_subtitle_task(c, args) ==
    /\ Free(c)
    /\ calls' = [calls EXCEPT
                   ![c] = Request(Begin("start_klicstudio_subtitle_task", args),
                                  "POST", API_SUBTITLE_TASK, Payload(args))]
    /\ UNCHANGED <<KLICSTUDIO_BASE_URL, reply, accepted, upstream_config>>

\* lines 354-359: what start_klicstudio_subtitle_task returns for an answer
StartTaskResult(call) ==
    Caught(ResponseJson(call), Envelope(1, "start_task_failed", JNull))

start_klicstudio_subtitle_task_done(c) ==
    /\ calls[c].pc = "ready"
    /\ calls[c].tool = "start_klicstudio_subtitle_task"
    /\ calls' = [calls EXCEPT ![c] = Finish(calls[c], StartTaskResult(calls[c]))]
    /\ UNCHANGED <<KLICSTUDIO_BASE_URL, reply, accepted, upstream_config>>

(***************************************************************************)
(* get_klicstudio_subtitle_task_details.                                   *)
(***************************************************************************)
TASKS_DIR == <<"/","a","p","i","/","f","i","l","e","/","t","a","s","k","s","/">>
HORIZONTAL_EMBED ==
    <<"/","o","u","t","p","u","t","/","h","o","r","i","z","o","n","t","a","l",
      "_","e","m","b","e","d",".","m","p","4">>
VERTICAL_EMBED ==
    <<"/","o","u","t","p","u","t","/","v","e","r","t","i","c","a","l",
      "_","e","m","b","e","d",".","m","p","4">>

\* lines 373-374: the request is sent
get_klicstudio_subtitle_task_details(c, task_id) ==
    /\ Free(c)
    /\ calls' = [calls EXCEPT
                   ![c] = Request(Begin("get_klicstudio_subtitle_task_details",
                                        [task_id |-> task_id]),
                                  "GET", API_SUBTITLE_TASK \o TASK_ID_QUERY \o task_id,
                                  JNull)]
    /\ UNCHANGED <<KLICSTUDIO_BASE_URL, reply, accepted, upstream_config>>

\* lines 389 and 394: the relative URL behind the base URL, joined by one "/"
\* unless it starts with one
Absolutize(relative_url) ==
    IF StartsWith(relative_url, <<"/">>)
    THEN RStrip(KLICSTUDIO_BASE_URL) \o relative_url
    ELSE RStrip(KLICSTUDIO_BASE_URL) \o <<"/">> \o relative_url

\* line 387: a download_url that is a str and does not start with "http"
IsRelative(item) ==
    /\ "download_url" \in DOMAIN item
    /\ item["download_url"].t = "str"
    /\ ~StartsWith(item["download_url"].v, HTTP_WORD)

\* lines 386-389: one entry of subtitle_info
RewriteItem(item) ==
    IF IsRelative(item)
    THEN [item EXCEPT !["download_url"] = JStr(Absolutize(item["download_url"].v))]
    ELSE item

\* lines 385-389
RewriteSubtitleInfo(data_part) ==
    IF "subtitle_info" \in DOMAIN data_part /\ data_part["subtitle_info"].t = "list"
    THEN LET items == data_part["subtitle_info"].v IN
         [data_part EXCEPT !["subtitle_info"] =
            JList([i \in 1..Len(items) |-> RewriteItem(items[i])])]
    ELSE data_part

\* lines 392-394: a speech_download_url that is a str, not empty, and does not
\* start with "http"
RewriteSpeech(data_part) ==
    IF /\ "speech_download_url" \in DOMAIN data_part
       /\ data_part["speech_download_url"].t = "str"
       /\ data_part["speech_download_url"].v # <<>>
       /\ ~StartsWith(data_part["speech_download_url"].v, HTTP_WORD)
    THEN [data_part EXCEPT !["speech_download_url"] =
            JStr(Absolutize(data_part["speech_download_url"].v))]
    ELSE data_part

\* a mutation of EmbedEntries: both links point at the horizontal video
EmbedEntriesSame(task_id) ==
    << [name |-> "horizontal", download_url |->
          RStrip(KLICSTUDIO_BASE_URL) \o TASKS_DIR \o task_id \o HORIZONTAL_EMBED],
       [name |-> "vertical", download_url |->
          RStrip(KLICSTUDIO_BASE_URL) \o TASKS_DIR \o task_id \o HORIZONTAL_EMBED] >>

\* lines 402-413: the two links appended for a finished task
EmbedEntries(task_id) ==
    << [name |-> "horizontal", download_url |->
          RStrip(KLICSTUDIO_BASE_URL) \o TASKS_DIR \o task_id \o HORIZONTAL_EMBED],
       [name |-> "vertical", download_url |->
          RStrip(KLICSTUDIO_BASE_URL) \o TASKS_DIR \o task_id \o VERTICAL_EMBED] >>

\* lines 381 and 397: progress == 100
Finished(data_part) ==
    "process_percent" \in DOMAIN data_part /\ data_part["process_percent"] = JInt(100)

\* lines 397-413: the list is created when the key is missing; appending to a
\* value that is no list raises
AddEmbedLinks(data_part, task_id) ==
    IF ~Finished(data_part) THEN Ok(data_part)
    ELSE IF "potential_embedded_video_urls" \notin DOMAIN data_part
    THEN Ok(Put(data_part, "potential_embedded_video_urls", JList(EmbedEntries(task_id))))
    ELSE IF data_part["potential_embedded_video_urls"].t # "list"
    THEN Raise
    ELSE Ok([data_part EXCEPT !["potential_embedded_video_urls"] =
               JList(@.v \o EmbedEntries(task_id))])

\* lines 378-416: the answer is edited when its error is 0; data that is no
\* object raises
EditDetails(response, task_id) ==
    IF response.error # 0 THEN Ok(response)
    ELSE IF response.data.t # "obj" THEN Raise
    ELSE LET edited == AddEmbedLinks(RewriteSpeech(RewriteSubtitleInfo(response.data.v)),
                                     task_id)
         IN IF edited.exc THEN Raise
            ELSE Ok([response EXCEPT !.data = JObj(edited.value)])

\* lines 375-421: what get_klicstudio_subtitle_task_details returns
DetailsResult(call) ==
    LET response == ResponseJson(call) IN
    Caught(IF response.exc THEN Raise ELSE EditDetails(response.value, call.args.task_id),
           Envelope(1, "get_details_failed", JObj([task_id |-> JStr(call.args.task_id)])))

get_klicstudio_subtitle_task_details_done(c) ==
    /\ calls[c].pc = "ready"
    /\ calls[c].tool = "get_klicstudio_subtitle_task_details"
    /\ calls' = [calls EXCEPT ![c] = Finish(calls[c], DetailsResult(calls[c]))]
    /\ UNCHANGED <<KLICSTUDIO_BASE_URL, reply, accepted, upstream_config>>

(***************************************************************************)
(* Inputs: what the callers and the upstream may hand to the connector.    *)
(***************************************************************************)
HTTP_A == <<"h","t","t","p",":","/","/","a">>
HTTPS_B == <<"h","t","t","p","s",":","/","/","b">>
HTTP_COLON == <<"h","t","t","p",":">>
FTP_A == <<"f","t","p",":","/","/","a">>
LOCALHOST == <<"l","o","c","a","l","h","o","s","t">>

\* URLs with up to MaxSlashes trailing slashes; HTTP_COLON and two slashes is
\* the bare prefix "http://"
UrlBodies == {HTTP_A, HTTPS_B, HTTP_COLON, FTP_A, LOCALHOST, <<>>}
UrlInputs == {body \o Slashes(k) : body \in UrlBodies, k \in 0..MaxSlashes}

\* the upstream's configuration: llm and, standing for every other section, app
InitialConfig == [app |-> "app0", llm |-> [baseUrl |-> "url0", apiKey |-> "key0", model |-> "model0"]]
ConfigInputs == {[app |-> "app1", llm |-> [baseUrl |-> "url0", apiKey |-> "key0", model |-> "model0"]]}
LlmInputs == {[base_url |-> "url1", api_key |-> "key1", model |-> "model1"]}

FileInputs ==
    {[name |-> "v.mp4", suffix |-> ".mp4", guessed |-> "video/mp4", exists |-> TRUE, readable |-> TRUE],
     [name |-> "v.mkv", suffix |-> ".mkv", guessed |-> "none", exists |-> TRUE, readable |-> TRUE],
     [name |-> "a.m4a", suffix |-> ".m4a", guessed |-> "none", exists |-> TRUE, readable |-> TRUE],
     [name |-> "x.bin", suffix |-> ".bin", guessed |-> "none", exists |-> TRUE, readable |-> FALSE],
     [name |-> "gone", suffix |-> "", guessed |-> "none", exists |-> FALSE, readable |-> FALSE]}

OptionalText(values) == {JNull} \cup {JStr(v) : v \in values}

StartInputs ==
    [media_url_on_klicstudio : {"local:./up.mp4"},
     language : {"zh_cn", "en"},
     origin_lang : OptionalText({"", "ja"}),
     target_lang : OptionalText({"", "en"}),
     bilingual : BOOLEAN,
     translation_subtitle_pos : {1},
     tts : BOOLEAN,
     tts_voice_code : {JInt(1)},
     tts_voice_clone_src_file_url : {JNull},
     modal_filter : {FALSE},
     embed_subtitle_video_type : {"none"},
     vertical_major_title : {JNull},
     vertical_minor_title : {JNull},
     replace_words : {JNull}]

TaskIds == {<<"t","1">>}

UPLOADED == <<"u","p","/","v",".","m","p","4">>
UploadData ==
    {JNull, JObj(EmptyObj),
     JObj("file_path" :> JStr(UPLOADED)),
     JObj("file_path" :> JStr(<<>>)),
     JObj("file_path" :> JList(<<JStr(UPLOADED)>>))}

ABSOLUTE_FILE == <<"h","t","t","p",":","/","/","c","/","f",".","s","r","t">>
SLASH_FILE == <<"/","d","/","f",".","s","r","t">>
PLAIN_FILE == <<"d","/","f",".","s","r","t">>
HTTPD_FILE == <<"h","t","t","p","d","/","f",".","s","r","t">>
DownloadUrls == {ABSOLUTE_FILE, SLASH_FILE, PLAIN_FILE, HTTPD_FILE}

SeqsUpTo(S, n) == UNION {[1..k -> S] : k \in 0..n}

SubtitleItems ==
    {("name" :> JStr("srt")) @@ ("download_url" :> JStr(u)) : u \in DownloadUrls}
    \cup {"name" :> JStr("srt")}
ExistingEntry == [name |-> "listed", download_url |-> ABSOLUTE_FILE]

PercentOptions == {EmptyObj, "process_percent" :> JInt(50), "process_percent" :> JInt(100)}
SubtitleOptions ==
    {EmptyObj, "subtitle_info" :> JNull}
    \cup {"subtitle_info" :> JList(l) : l \in SeqsUpTo(SubtitleItems, MaxItems)}
SpeechOptions ==
    {EmptyObj} \cup {"speech_download_url" :> JStr(u) : u \in {<<>>, SLASH_FILE, ABSOLUTE_FILE}}
ExistingOptions ==
    {EmptyObj}
    \cup {"potential_embedded_video_urls" :> JList([i \in 1..k |-> ExistingEntry]) :
            k \in 0..MaxExisting}
DetailsData ==
    {p @@ i @@ s @@ x : p \in PercentOptions, i \in SubtitleOptions,
                        s \in SpeechOptions, x \in ExistingOptions}

UpstreamError == Envelope(1, "upstream_error", JNull)

\* the JSON bodies the upstream may answer the pending request of call c with
Answers(c) ==
    LET req == Pending(c) IN
    IF req.endpoint = API_CONFIG /\ req.method = "GET"
    THEN {Envelope(0, "ok", JObj(upstream_config)), Envelope(0, "ok", JNull), UpstreamError}
    ELSE IF req.endpoint = API_CONFIG
    THEN {Envelope(0, "saved", JNull), UpstreamError}
    ELSE IF req.endpoint = API_FILE
    THEN {Envelope(0, "ok", d) : d \in UploadData} \cup {UpstreamError}
    ELSE IF req.method = "POST"
    THEN {Envelope(0, "ok", JObj("task_id" :> JStr(t))) : t \in TaskIds} \cup {UpstreamError}
    ELSE {Envelope(0, "ok", JObj(d)) : d \in DetailsData}
         \cup {Envelope(0, "ok", JNull), UpstreamError}

FailureKinds == {"status", "request", "unexpected"}

(***************************************************************************)
(* Spec: one tool call at a time, every tool, while the base URL is read   *)
(* and set at any moment.                                                  *)
(***************************************************************************)
\* line 507: the stored URL is the startup value without its trailing slashes
Startup(klicstudio_url, slots) ==
    /\ KLICSTUDIO_BASE_URL = RStrip(klicstudio_url)
    /\ accepted = [by_set |-> FALSE, value |-> RStrip(klicstudio_url)]
    /\ reply = [tool |-> "none", new_url |-> <<>>, ret |-> NoResult]
    /\ upstream_config = InitialConfig
    /\ calls = [c \in slots |-> Idle]

\* line 518: the runtime hands the returned value to the caller of the tool
\* and the call is over
tool_call_over(c) ==
    /\ calls[c].pc = "done"
    /\ calls' = [calls EXCEPT ![c] = Idle]
    /\ UNCHANGED <<KLICSTUDIO_BASE_URL, reply, accepted, upstream_config>>

SmallUrlInputs == {HTTPS_B \o <<"/">>, FTP_A}

Init == Startup(DEFAULT_KLICSTUDIO_URL, {1})

Next ==
    \/ get_klicstudio_base_url
    \/ \E new_url \in SmallUrlInputs : set_klicstudio_base_url(new_url)
    \/ \E c \in DOMAIN calls : get_klicstudio_system_config(c)
    \/ \E c \in DOMAIN calls : get_klicstudio_system_config_done(c)
    \/ \E c \in DOMAIN calls, config_data \in ConfigInputs :
         update_klicstudio_system_config(c, config_data)
    \/ \E c \in DOMAIN calls : update_klicstudio_system_config_done(c)
    \/ \E c \in DOMAIN calls, a \in LlmInputs :
         update_klicstudio_llm_config(c, a.base_url, a.api_key, a.model)
    \/ \E c \in DOMAIN calls : update_klicstudio_llm_config_fetched(c)
    \/ \E c \in DOMAIN calls : update_klicstudio_llm_config_done(c)
    \/ \E c \in DOMAIN calls, file \in FileInputs : upload_file_to_klicstudio(c, file)
    \/ \E c \in DOMAIN calls : upload_file_to_klicstudio_done(c)
    \/ \E c \in DOMAIN calls, args \in StartInputs : start_klicstudio_subtitle_task(c, args)
    \/ \E c \in DOMAIN calls : start_klicstudio_subtitle_task_done(c)
    \/ \E c \in DOMAIN calls, task_id \in TaskIds :
         get_klicstudio_subtitle_task_details(c, task_id)
    \/ \E c \in DOMAIN calls : get_klicstudio_subtitle_task_details_done(c)
    \/ \E c \in DOMAIN calls : tool_call_over(c)
    \/ \E c \in DOMAIN calls : calls[c].pc = "await" /\ \E json \in Answers(c) : RespondOk(c, json)
    \/ \E c \in DOMAIN calls, kind \in FailureKinds, applied \in BOOLEAN :
         RespondFail(c, kind, applied)

Spec == Init /\ [][Next]_vars

(***************************************************************************)
(* SpecUrl: the base URL, started from and set to every URL of UrlInputs,  *)
(* while the tools that only read the upstream run.                        *)
(***************************************************************************)
PlainAnswers == {Envelope(0, "ok", JNull), UpstreamError}

InitUrl == \E klicstudio_url \in UrlInputs \cup {DEFAULT_KLICSTUDIO_URL} :
              Startup(klicstudio_url, {1})

NextUrl ==
    \/ get_klicstudio_base_url
    \/ \E new_url \in UrlInputs : set_klicstudio_base_url(new_url)
    \/ \E c \in DOMAIN calls : get_klicstudio_system_config(c)
    \/ \E c \in DOMAIN calls : get_klicstudio_system_config_done(c)
    \/ \E c \in DOMAIN calls, task_id \in TaskIds :
         get_klicstudio_subtitle_task_details(c, task_id)
    \/ \E c \in DOMAIN calls : get_klicstudio_subtitle_task_details_done(c)
    \/ \E c \in DOMAIN calls : tool_call_over(c)
    \/ \E c \in DOMAIN calls, json \in PlainAnswers : RespondOk(c, json)
    \/ \E c \in DOMAIN calls, kind \in FailureKinds : RespondFail(c, kind, FALSE)

SpecUrl == InitUrl /\ [][NextUrl]_vars

(***************************************************************************)
(* SpecConc: MaxCalls calls of the configuration tools in flight together. *)
(***************************************************************************)
InitConc == Startup(DEFAULT_KLICSTUDIO_URL, 1..MaxCalls)

NextConc ==
    \/ \E c \in DOMAIN calls : get_klicstudio_system_config(c)
    \/ \E c \in DOMAIN calls : get_klicstudio_system_config_done(c)
    \/ \E c \in DOMAIN calls, config_data \in ConfigInputs :
         update_klicstudio_system_config(c, config_data)
    \/ \E c \in DOMAIN calls : update_klicstudio_system_config_done(c)
    \/ \E c \in DOMAIN calls, a \in LlmInputs :
         update_klicstudio_llm_config(c, a.base_url, a.api_key, a.model)
    \/ \E c \in DOMAIN calls : update_klicstudio_llm_config_fetched(c)
    \/ \E c \in DOMAIN calls : update_klicstudio_llm_config_done(c)
    \/ \E c \in DOMAIN calls : tool_call_over(c)
    \/ \E c \in DOMAIN calls : calls[c].pc = "await" /\ \E json \in Answers(c) : RespondOk(c, json)
    \/ \E c \in DOMAIN calls, kind \in FailureKinds, applied \in BOOLEAN :
         RespondFail(c, kind, applied)

SpecConc == InitConc /\ [][NextConc]_vars

(***************************************************************************)
(* Properties.  They are stated with their own reading of "absolute URL"   *)
(* and "trailing slashes stripped", not with the operators of the model.   *)
(***************************************************************************)
\* s starts with http:// or https://
IsAbsoluteHttpUrl(s) ==
    \E p \in {HTTP_PREFIX, HTTPS_PREFIX} :
        Len(s) >= Len(p) /\ \A i \in 1..Len(p) : s[i] = p[i]

\* r is s without its trailing slashes
IsStripOf(r, s) ==
    /\ Len(r) <= Len(s)
    /\ \A i \in 1..Len(r) : r[i] = s[i]
    /\ \A i \in (Len(r) + 1)..Len(s) : s[i] = "/"
    /\ r = <<>> \/ r[Len(r)] # "/"

IsGet(r) == r.tool = "get_klicstudio_base_url"
IsSet(r) == r.tool = "set_klicstudio_base_url"

\* C1: in every reachable state the stored base URL starts with http:// or
\* https:// and does not end with "/".
C1_BaseUrlAbsolute ==
    /\ IsAbsoluteHttpUrl(KLICSTUDIO_BASE_URL)
    /\ KLICSTUDIO_BASE_URL = <<>> \/ KLICSTUDIO_BASE_URL[Len(KLICSTUDIO_BASE_URL)] # "/"

\* C2: a Set Base URL whose argument starts with neither http:// nor https://
\* returns error = 1 and leaves the stored base URL as it was, and a Get Base
\* URL returns the stored base URL.
C2_RejectedSetKeepsUrl ==
    [][/\ (IsSet(reply') /\ ~IsAbsoluteHttpUrl(reply'.new_url))
          => /\ reply'.ret.error = 1
             /\ reply'.ret.data = [previous_url |-> KLICSTUDIO_BASE_URL]
             /\ KLICSTUDIO_BASE_URL' = KLICSTUDIO_BASE_URL
       /\ IsGet(reply')
          => reply'.ret.data.klicstudio_base_url = KLICSTUDIO_BASE_URL]_vars

\* C2 witness: a Set Base URL was rejected after an earlier one had succeeded,
\* and the URL of the earlier one is still stored.
C2_Witness ==
    /\ IsSet(reply) /\ ~IsAbsoluteHttpUrl(reply.new_url)
    /\ reply.ret.error = 1
    /\ accepted.by_set
    /\ KLICSTUDIO_BASE_URL = HTTPS_B

\* the value Get Base URL is to return: the argument of the most recent
\* successful Set Base URL without its trailing slashes, else the startup value
IsExpectedUrl(u) ==
    IF accepted.by_set THEN IsStripOf(u, accepted.value) ELSE u = accepted.value

\* C3: Get Base URL returns, with error = 0, the argument of the most recent
\* successful Set Base URL without its trailing slashes (the startup value when
\* none succeeded); Set Base URL succeeds for every string that starts with
\* http:// or https://; only a successful Set Base URL changes the stored URL.
C3_GetReturnsLastSet ==
    /\ [](/\ IsExpectedUrl(KLICSTUDIO_BASE_URL)
          /\ IsGet(reply) => /\ reply.ret.error = 0
                             /\ IsExpectedUrl(reply.ret.data.klicstudio_base_url)
          /\ IsSet(reply) => /\ IsAbsoluteHttpUrl(reply.new_url) => reply.ret.error = 0
                             /\ reply.ret.error = 0 =>
                                  accepted = [by_set |-> TRUE, value |-> reply.new_url])
    /\ [][KLICSTUDIO_BASE_URL' # KLICSTUDIO_BASE_URL
            => /\ IsSet(reply') /\ reply'.ret.error = 0
               /\ IsStripOf(KLICSTUDIO_BASE_URL', reply'.new_url)
               /\ calls' = calls]_vars

\* C3 witness: Get Base URL has returned http://a after Set Base URL was given
\* http://a// and a tool call went to the upstream and returned.
C3_Witness ==
    /\ IsGet(reply)
    /\ accepted = [by_set |-> TRUE, value |-> HTTP_A \o <<"/", "/">>]
    /\ reply.ret.data.klicstudio_base_url = HTTP_A
    /\ \E c \in DOMAIN calls : calls[c].pc = "done" /\ calls[c].sent[1].base = HTTP_A

IsLlmCall(call) == call.tool = "update_klicstudio_llm_config"
IsDetailsCall(call) == call.tool = "get_klicstudio_subtitle_task_details"

\* the answer number i of a call is a failure: no 2xx response, or an upstream
\* envelope whose error is not 0
AnswerFailed(call, i) ==
    /\ Len(call.recv) >= i
    /\ call.recv[i].kind # "ok" \/ call.recv[i].json.error # 0

\* body is the whole of the fetched config with its three LLM fields set
IsWholeConfig(body, fetched, args) ==
    /\ DOMAIN body = DOMAIN fetched
    /\ \A k \in DOMAIN fetched \ {"llm"} : body[k] = fetched[k]
    /\ body.llm = [baseUrl |-> args.base_url, apiKey |-> args.api_key, model |-> args.model]

\* C4: Update LLM Config whose fetch fails sends no POST and returns an error
\* envelope; when the resubmit fails it returns an error envelope; every POST
\* it sends carries the whole fetched config with all three LLM fields set;
\* and the upstream's config changes only by a config POST that reached it.
C4_LlmUpdateAtomic ==
    /\ [](\A c \in DOMAIN calls :
            LET call == calls[c] IN
            IsLlmCall(call) =>
              /\ AnswerFailed(call, 1) =>
                   /\ Len(call.sent) = 1 /\ call.sent[1].method = "GET"
                   /\ call.pc = "done" => ~call.raised /\ call.result.error # 0
              /\ (AnswerFailed(call, 2) /\ call.pc = "done") =>
                   ~call.raised /\ call.result.error # 0
              /\ \A i \in 1..Len(call.sent) :
                   call.sent[i].method = "POST" =>
                     /\ i = 2
                     /\ IsWholeConfig(call.sent[i].json, call.recv[1].json.data.v, call.args))
    /\ [][upstream_config' # upstream_config =>
            \E c \in DOMAIN calls :
               /\ calls[c].pc = "await" /\ calls'[c].pc = "ready"
               /\ Pending(c).method = "POST" /\ Pending(c).endpoint = API_CONFIG
               /\ upstream_config' = Pending(c).json]_vars

\* C4 witness: an Update LLM Config has returned after its resubmit, carrying a
\* config that differs from the upstream's, failed.
C4_Witness ==
    \E c \in DOMAIN calls :
        /\ IsLlmCall(calls[c]) /\ calls[c].pc = "done"
        /\ Len(calls[c].sent) = 2 /\ AnswerFailed(calls[c], 2)
        /\ calls[c].sent[2].json # calls[c].recv[1].json.data.v

\* the data of the envelope a tool returns when its HTTP request failed
FailureData(call) ==
    IF IsDetailsCall(call) THEN JObj([task_id |-> JStr(call.args.task_id)]) ELSE JNull

\* C5 as amended: a tool call whose HTTP request failed sends no further
\* request, never raises, and returns error = 1 with a message and data = null,
\* except Get Subtitle Task Details, whose data is {task_id: <the task id>}.
C5_FailureEnvelopeWithTaskId ==
    \A c \in DOMAIN calls :
        LET call == calls[c] IN
        call.failedAt > 0 =>
          /\ Len(call.sent) = call.failedAt
          /\ call.pc \in {"ready", "done"}
          /\ call.pc = "done" =>
               /\ ~call.raised
               /\ call.result.error = 1
               /\ call.result.msg # ""
               /\ call.result.data = FailureData(call)

\* C5 witness: a Get Subtitle Task Details whose request failed has returned
\* the envelope that carries the task id.
C5_Witness ==
    \E c \in DOMAIN calls :
        /\ IsDetailsCall(calls[c]) /\ calls[c].pc = "done" /\ calls[c].failedAt = 1
        /\ calls[c].result.data = JObj([task_id |-> JStr(calls[c].args.task_id)])

\* C5: every tool call whose HTTP request failed returns error = 1, a message
\* and data = null, never raises and sends no further request.
C5_FailureEnvelopeNull ==
    \A c \in DOMAIN calls :
        LET call == calls[c] IN
        call.failedAt > 0 =>
          /\ Len(call.sent) = call.failedAt
          /\ call.pc = "done" =>
               /\ ~call.raised
               /\ call.result.error = 1
               /\ call.result.msg # ""
               /\ call.result.data = JNull

IsStartCall(call) == call.tool = "start_klicstudio_subtitle_task"

\* a non-empty value was supplied for an optional text parameter
Supplied(x) == x # JNull /\ x.v # ""

\* C6 as amended: the payload has target_lang exactly when a non-empty
\* target_lang was supplied, and origin_lang exactly when a non-empty
\* origin_lang or a non-empty target_lang was supplied; a supplied origin_lang
\* is sent as given, and when only target_lang is supplied origin_lang equals
\* language.
C6_TranslationKeys ==
    \A c \in DOMAIN calls :
        LET call == calls[c] IN
        (IsStartCall(call) /\ Len(call.sent) = 1) =>
          LET payload == call.sent[1].json
              args == call.args
          IN /\ "target_lang" \in DOMAIN payload <=> Supplied(args.target_lang)
             /\ Supplied(args.target_lang) => payload["target_lang"] = args.target_lang.v
             /\ "origin_lang" \in DOMAIN payload
                  <=> (Supplied(args.origin_lang) \/ Supplied(args.target_lang))
             /\ Supplied(args.origin_lang) => payload["origin_lang"] = args.origin_lang.v
             /\ (Supplied(args.target_lang) /\ ~Supplied(args.origin_lang))
                  => payload["origin_lang"] = args.language

\* C6 witness: a task was started with origin_lang supplied and target_lang
\* omitted, and its payload was sent.
C6_Witness ==
    \E c \in DOMAIN calls :
        /\ IsStartCall(calls[c]) /\ Len(calls[c].sent) = 1
        /\ Supplied(calls[c].args.origin_lang) /\ calls[c].args.target_lang = JNull
        /\ "origin_lang" \in DOMAIN calls[c].sent[1].json

\* C6: the payload has origin_lang and target_lang only when a non-empty
\* target_lang was supplied; when it was not, both are absent; when it was
\* and origin_lang is omitted, origin_lang equals language.
C6_TranslationKeysOnlyWithTarget ==
    \A c \in DOMAIN calls :
        LET call == calls[c] IN
        (IsStartCall(call) /\ Len(call.sent) = 1) =>
          LET payload == call.sent[1].json
              args == call.args
          IN /\ ~Supplied(args.target_lang) =>
                  /\ "origin_lang" \notin DOMAIN payload
                  /\ "target_lang" \notin DOMAIN payload
             /\ (Supplied(args.target_lang) /\ ~Supplied(args.origin_lang))
                  => payload["origin_lang"] = args.language

IsUploadCall(call) == call.tool = "upload_file_to_klicstudio"

\* the single path an upstream file_path value stands for
HasFilePath(data) == data.t = "obj" /\ "file_path" \in DOMAIN data.v
FullPath(file_path) ==
    IF file_path.t = "list" /\ Len(file_path.v) = 1 THEN file_path.v[1] ELSE file_path

\* C7: when Upload File succeeds and the upstream's data carries a file_path,
\* the returned data.file_path is the full path as one string: the element of
\* a single-element list, or the string itself.
C7_FilePathIsFullString ==
    \A c \in DOMAIN calls :
        LET call == calls[c] IN
        (/\ IsUploadCall(call) /\ call.pc = "done" /\ Len(call.recv) = 1
         /\ call.recv[1].kind = "ok" /\ call.recv[1].json.error = 0
         /\ HasFilePath(call.recv[1].json.data))
        => /\ ~call.raised
           /\ call.result.error = 0
           /\ HasFilePath(call.result.data)
           /\ call.result.data.v["file_path"] = FullPath(call.recv[1].json.data.v["file_path"])

\* the step in which the Get Subtitle Task Details of slot c, resumed with a
\* 2xx answer whose error is 0 and whose data is an object, returns
DetailsReturns(c) ==
    /\ IsDetailsCall(calls[c]) /\ calls[c].pc = "ready" /\ calls'[c].pc = "done"
    /\ calls[c].recv[1].kind = "ok"
    /\ calls[c].recv[1].json.error = 0
    /\ calls[c].recv[1].json.data.t = "obj"

IsFinished(data) == "process_percent" \in DOMAIN data /\ data["process_percent"] = JInt(100)

EmbedKey == "potential_embedded_video_urls"

\* the URL of an embedded video of a task, under the stored base URL
EmbedUrl(task_id, file) == KLICSTUDIO_BASE_URL \o TASKS_DIR \o task_id \o file

\* what the upstream listed under the key: nothing when the key is missing
Listed(data) == IF EmbedKey \in DOMAIN data THEN data[EmbedKey].v ELSE <<>>

\* C8 as amended: for an answer with error = 0 and process_percent = 100
\* (whose data has no such key, or a list under it) the returned list is what
\* the upstream listed followed by exactly two entries, the horizontal and
\* then the vertical link, so exactly two when the upstream listed none; when
\* process_percent is not 100 the value under the key is as the upstream sent.
C8_TwoEmbedLinksAppended ==
    [][\A c \in DOMAIN calls :
         DetailsReturns(c) =>
           LET data == calls[c].recv[1].json.data.v
               task_id == calls[c].args.task_id
               result == calls'[c].result
           IN /\ result.error = 0 /\ result.data.t = "obj"
              /\ IF IsFinished(data)
                 THEN LET urls == result.data.v[EmbedKey].v
                          n == Len(Listed(data))
                      IN /\ Len(urls) = n + 2
                         /\ SubSeq(urls, 1, n) = Listed(data)
                         /\ urls[n + 1].download_url = EmbedUrl(task_id, HORIZONTAL_EMBED)
                         /\ urls[n + 2].download_url = EmbedUrl(task_id, VERTICAL_EMBED)
                 ELSE /\ EmbedKey \in DOMAIN result.data.v <=> EmbedKey \in DOMAIN data
                      /\ EmbedKey \in DOMAIN data =>
                           result.data.v[EmbedKey] = data[EmbedKey]]_vars

\* C8 witness: a finished task whose answer already listed one video was
\* returned with three entries, after the base URL was set to https://b.
C8_Witness ==
    \E c \in DOMAIN calls :
        /\ IsDetailsCall(calls[c]) /\ calls[c].pc = "done" /\ ~calls[c].raised
        /\ calls[c].recv[1].kind = "ok" /\ calls[c].recv[1].json.error = 0
        /\ calls[c].recv[1].json.data.t = "obj"
        /\ IsFinished(calls[c].recv[1].json.data.v)
        /\ EmbedKey \in DOMAIN calls[c].recv[1].json.data.v
        /\ calls[c].recv[1].json.data.v[EmbedKey] = JList(<<ExistingEntry>>)
        /\ calls[c].result.error = 0
        /\ Len(calls[c].result.data.v[EmbedKey].v) = 3
        /\ calls[c].result.data.v[EmbedKey].v[3].download_url
             = HTTPS_B \o TASKS_DIR \o calls[c].args.task_id \o VERTICAL_EMBED

\* C8: for an answer with error = 0 and process_percent = 100 the returned
\* data has exactly two entries under potential_embedded_video_urls, the
\* horizontal and then the vertical link; otherwise nothing is added.
C8_ExactlyTwoEmbedLinks ==
    [][\A c \in DOMAIN calls :
         DetailsReturns(c) =>
           LET data == calls[c].recv[1].json.data.v
               task_id == calls[c].args.task_id
               result == calls'[c].result
           IN /\ result.error = 0 /\ result.data.t = "obj"
              /\ IF IsFinished(data)
                 THEN LET urls == result.data.v[EmbedKey].v
                      IN /\ Len(urls) = 2
                         /\ urls[1].download_url = EmbedUrl(task_id, HORIZONTAL_EMBED)
                         /\ urls[2].download_url = EmbedUrl(task_id, VERTICAL_EMBED)
                 ELSE /\ EmbedKey \in DOMAIN result.data.v <=> EmbedKey \in DOMAIN data
                      /\ EmbedKey \in DOMAIN data =>
                           result.data.v[EmbedKey] = data[EmbedKey]]_vars

\* the absolute form of a download URL: itself when it is an absolute
\* http(s) URL, else the base URL, one "/", and the path without the "/" it
\* may start with
AbsoluteForm(u) ==
    IF IsAbsoluteHttpUrl(u) THEN u
    ELSE KLICSTUDIO_BASE_URL \o <<"/">> \o (IF u # <<>> /\ u[1] = "/" THEN Tail(u) ELSE u)

HasUrl(item) == "download_url" \in DOMAIN item /\ item["download_url"].t = "str"

\* C9: in a successful Get Subtitle Task Details result every download URL of
\* a subtitle entry and of the speech asset that is not an absolute http(s)
\* URL is the base URL, one "/", and the relative path; absolute URLs are
\* returned unchanged.
C9_RelativeUrlsAbsolutized ==
    [][\A c \in DOMAIN calls :
         (DetailsReturns(c) /\ calls'[c].result.error = 0) =>
           LET data == calls[c].recv[1].json.data.v
               result == calls'[c].result.data.v
           IN /\ ("subtitle_info" \in DOMAIN data /\ data["subtitle_info"].t = "list") =>
                   \A i \in 1..Len(data["subtitle_info"].v) :
                     HasUrl(data["subtitle_info"].v[i]) =>
                       result["subtitle_info"].v[i]["download_url"]
                         = JStr(AbsoluteForm(data["subtitle_info"].v[i]["download_url"].v))
              /\ "speech_download_url" \in DOMAIN data =>
                   result["speech_download_url"]
                     = JStr(AbsoluteForm(data["speech_download_url"].v))]_vars

\* C10: when the resubmit of an Update LLM Config is applied upstream, every
\* field of the upstream config outside llm keeps the value it had just
\* before, whatever other call wrote it since this call's fetch.
C10_NoLostUpdate ==
    [][\A c \in DOMAIN calls :
         (/\ IsLlmCall(calls[c]) /\ calls[c].pc = "await" /\ Len(calls[c].sent) = 2
          /\ calls'[c].pc = "ready"
          /\ upstream_config' = Pending(c).json)
         => \A k \in DOMAIN upstream_config \ {"llm"} :
              upstream_config'[k] = upstream_config[k]]_vars

\* u begins with the base URL b followed by "/"
IsUnder(u, b) ==
    /\ Len(u) > Len(b)
    /\ \A i \in 1..Len(b) : u[i] = b[i]
    /\ u[Len(b) + 1] = "/"

\* the step in which the Update LLM Config of slot c sends its resubmit
LlmResubmits(c) ==
    /\ IsLlmCall(calls[c]) /\ Len(calls[c].sent) = 1 /\ Len(calls'[c].sent) = 2

\* C11: within one tool call the base URL is used consistently, also when Set
\* Base URL runs while the call is suspended: the resubmit of an Update LLM
\* Config is sent to the base URL its fetch was sent to, and in a Get Subtitle
\* Task Details result every download URL the adapter rewrote and the two
\* embed links it added are under the base URL the status request was sent to.
C11_BaseUrlConsistentInCall ==
    [][\A c \in DOMAIN calls :
         /\ LlmResubmits(c) => calls'[c].sent[2].base = calls'[c].sent[1].base
         /\ (DetailsReturns(c) /\ calls'[c].result.error = 0) =>
              LET data == calls[c].recv[1].json.data.v
                  result == calls'[c].result.data.v
                  task_id == calls[c].args.task_id
                  base_url == calls[c].sent[1].base
              IN /\ ("subtitle_info" \in DOMAIN data /\ data["subtitle_info"].t = "list") =>
                      \A i \in 1..Len(data["subtitle_info"].v) :
                        (/\ HasUrl(data["subtitle_info"].v[i])
                         /\ result["subtitle_info"].v[i]["download_url"]
                              # data["subtitle_info"].v[i]["download_url"])
                        => IsUnder(result["subtitle_info"].v[i]["download_url"].v, base_url)
                 /\ ("speech_download_url" \in DOMAIN data
                     /\ result["speech_download_url"] # data["speech_download_url"])
                    => IsUnder(result["speech_download_url"].v, base_url)
                 /\ IsFinished(data) =>
                      LET urls == result[EmbedKey].v
                          n == Len(urls)
                      IN /\ urls[n - 1].download_url
                              = base_url \o TASKS_DIR \o task_id \o HORIZONTAL_EMBED
                         /\ urls[n].download_url
                              = base_url \o TASKS_DIR \o task_id \o VERTICAL_EMBED]_vars

====
